---- MODULE Spec2Model ----
(***************************************************************************)
(* iexjs: the marketdata HTTP endpoints (src/js/marketdata/http.js) and    *)
(* the ref-data symbol endpoints with their list conversions, over the     *)
(* request core _getJson and the validation helpers of ../common.          *)
(*                                                                         *)
(* A JavaScript string is a sequence of one-character strings, so that     *)
(* template literals, join and + are real concatenations and a URL can be  *)
(* inspected character by character.                                       *)
(***************************************************************************)
EXTENDS Integers, Sequences, FiniteSets

VARIABLES client, calls, network

vars == <<client, calls, network>>

-----------------------------------------------------------------------------
(* Bounds of the model. *)

\* longest symbols array a caller passes
MaxSymbols == 2

\* longest array of records in a decoded response
MaxRecords == 2

\* most calls in flight at once through one Client
MaxCalls == 2

-----------------------------------------------------------------------------
(* The records of the model. *)

\* a JavaScript value: a tag and a payload
JsValue(t, v) == [t |-> t, v |-> v]

\* the object literal an endpoint hands to the core; a key it does not set
\* reads as undefined
Options(url, token, version, filter) ==
  [url |-> url, token |-> token, version |-> version, filter |-> filter]

\* a pending value: the arguments of the core call behind it (kind "request"),
\* or the error thrown before the core was reached (kind "throw"), and the
\* continuation that runs when the core call settles
PendingValue(token, version, filter, kind, options, err, then) ==
  [token |-> token, version |-> version, filter |-> filter, kind |-> kind,
   options |-> options, err |-> err, then |-> then]

\* decoded JSON: k = "array" (ra: records with a symbol), k = "fx" (ra: the
\* currencies, rb: the pairs), k = "strings" (ra: a flat list), k = "pair"
\* (ra, rb: two flat lists), k = "object" (any other object), k = "malformed"
\* (a body that is no JSON)
Json(k, ra, rb) == [k |-> k, ra |-> ra, rb |-> rb]

\* how a call stands: pending, resolved to a value, rejected or thrown with
\* an error name and, for a RequestError, the HTTP status
Outcome(state, name, status, value) ==
  [state |-> state, name |-> name, status |-> status, value |-> value]

\* the transport's answer
Response(status, body) == [status |-> status, body |-> body]

\* the arguments of one call; a1 and a2 are the endpoint's own arguments
Args(a1, a2, token, version, filter) ==
  [token |-> token, version |-> version, filter |-> filter, a1 |-> a1, a2 |-> a2]

\* one call of an endpoint
Call(fn, via, args, promise, response, outcome) ==
  [fn |-> fn, via |-> via, args |-> args, promise |-> promise,
   response |-> response, outcome |-> outcome]

\* a Client and its stored configuration
NewClient(_token, _version) == [_token |-> _token, _version |-> _version]

\* the records of the decoded responses
SymbolRecord(symbol) == [symbol |-> symbol]

CurrencyRecord(code) == [code |-> code]

PairRecord(fromCurrency, toCurrency) ==
  [fromCurrency |-> fromCurrency, toCurrency |-> toCurrency]

-----------------------------------------------------------------------------
(* JavaScript values. *)

Undefined == JsValue("undefined", <<>>)

Str(s) == JsValue("string", s)

Arr(l) == JsValue("array", l)

\* a Date of the given year, month and day
Date(ymd) == JsValue("date", ymd)

IsStr(x) == x.t = "string"

\* JavaScript truthiness: undefined and "" are falsy, every array is truthy
Truthy(x) ==
  CASE x.t = "undefined" -> FALSE
    [] x.t = "string" -> Len(x.v) > 0
    [] OTHER -> TRUE

RECURSIVE Join(_, _)
\* Array.prototype.join
Join(l, sep) ==
  IF Len(l) = 0 THEN <<>>
  ELSE IF Len(l) = 1 THEN l[1]
  ELSE l[1] \o sep \o Join(Tail(l), sep)

\* the text a template literal ${x} inserts
Interpolate(x) ==
  CASE x.t = "undefined" -> <<"u", "n", "d", "e", "f", "i", "n", "e", "d">>
    [] x.t = "string" -> x.v
    [] OTHER -> Join(x.v, <<",">>)

\* a default parameter (p = d): d replaces an argument that is undefined
Default(x, d) == IF x = Undefined THEN d ELSE x

RECURSIVE SeqsUpTo(_, _)
\* the sequences over S of length at most n
SeqsUpTo(S, n) ==
  IF n = 0 THEN {<<>>}
  ELSE LET R == SeqsUpTo(S, n - 1)
       IN  R \cup {Append(r, s) : r \in {q \in R : Len(q) = n - 1}, s \in S}

-----------------------------------------------------------------------------
(* Validation helpers of ../common. *)

\* _raiseIfNotStr(x) throws iff x is provided and is not a string
_raiseIfNotStr(x) == x # Undefined /\ ~IsStr(x)

\* _strToList(x): a single string becomes a one-element array
_strToList(x) == IF IsStr(x) THEN <<x.v>> ELSE x.v

\* _strOrDate(x): a string already in YYYYMMDD form is kept, a date is
\* formatted to YYYYMMDD, anything else is unparseable
DigitChars == <<"0", "1", "2", "3", "4", "5", "6", "7", "8", "9">>

RECURSIVE Pad(_, _)
\* n in decimal, zero-padded to w digits
Pad(n, w) == IF w = 0 THEN <<>> ELSE Pad(n \div 10, w - 1) \o <<DigitChars[(n % 10) + 1]>>

IsYYYYMMDD(s) == Len(s) = 8 /\ \A i \in 1..8 : \E d \in 1..10 : s[i] = DigitChars[d]

_strOrDate_throws(x) ==
  CASE x.t = "string" -> ~IsYYYYMMDD(x.v)
    [] x.t = "date" -> FALSE
    [] OTHER -> TRUE

_strOrDate(x) ==
  IF x.t = "date"
  THEN Pad(x.v[1], 4) \o Pad(x.v[2], 2) \o Pad(x.v[3], 2)
  ELSE x.v

-----------------------------------------------------------------------------
(* The request core. *)

NoOptions == Options(<<>>, Undefined, Undefined, Undefined)

\* the pending value of one core call _getJson(options, token, version, filter):
\* the request descriptor as the core received it
_getJson(options, token, version, filter) ==
  PendingValue(token, version, filter, "request", options, "", "none")

\* an endpoint that throws before it reaches the core
Throw(name) ==
  PendingValue(Undefined, Undefined, Undefined, "throw", NoOptions, name, "none")

Base == <<"h", "t", "t", "p", "s", ":", "/", "/", "h", "o", "s", "t">>

DefaultVersion == <<"s", "t", "a", "b", "l", "e">>

IEX_TOKEN == <<"T", "p", "k">>

\* <base>/<version>/<path>?token=<token>[&filter=<filter>]
RequestUrl(p) ==
  LET version == IF Truthy(p.version) THEN p.version.v ELSE DefaultVersion
      token == IF Truthy(p.token) THEN p.token.v ELSE IEX_TOKEN
  IN  Base \o <<"/">> \o version \o <<"/">> \o p.options.url
        \o <<"?", "t", "o", "k", "e", "n", "=">> \o token
        \o (IF Truthy(p.filter) THEN <<"&", "f", "i", "l", "t", "e", "r", "=">> \o p.filter.v ELSE <<>>)

NoValue == Json("none", <<>>, <<>>)

Pending == Outcome("pending", "", 0, NoValue)

Resolved(value) == Outcome("resolved", "", 0, value)

Rejected(name, status) == Outcome("rejected", name, status, NoValue)

Thrown(name) == Outcome("thrown", name, 0, NoValue)

IsSuccess(status) == status \div 100 = 2

\* how the core settles on the transport's answer
GetJsonOutcome(resp) ==
  IF ~IsSuccess(resp.status) THEN Rejected("RequestError", resp.status)
  ELSE IF resp.body.k = "malformed" THEN Rejected("DecodeError", 0)
  ELSE Resolved(resp.body)

\* what an async function does after its await: the continuation named k runs
\* on the awaited core result
Await(res, k) == [res EXCEPT !.then = k]

-----------------------------------------------------------------------------
(* marketdata/http.js *)

\* tops without the %2b suffix
tops_unsuffixed(symbols, token, version, filter) ==
  IF Truthy(symbols)
  THEN _getJson(Options(<<"t", "o", "p", "s", "?", "s", "y", "m", "b", "o", "l", "s", "=">>
                          \o Join(_strToList(symbols), <<",">>),
                        Undefined, Undefined, Undefined),
                token, version, Undefined)
  ELSE _getJson(Options(<<"t", "o", "p", "s">>, Undefined, Undefined, Undefined),
                token, version, filter)

tops(symbols, token, version, filter) ==
  IF Truthy(symbols)
  THEN _getJson(Options(<<"t", "o", "p", "s", "?", "s", "y", "m", "b", "o", "l", "s", "=">>
                          \o Join(_strToList(symbols), <<",">>) \o <<"%", "2", "b">>,
                        Undefined, Undefined, Undefined),
                token, version, Undefined)
  ELSE _getJson(Options(<<"t", "o", "p", "s">>, Undefined, Undefined, Undefined),
                token, version, filter)

\* the method with the stored token and version handed over in the wrong order
Client_tops_swapped(this, symbols, filter) == tops(symbols, this._version, this._token, filter)

Client_tops(this, symbols, filter) == tops(symbols, this._token, this._version, filter)

last(symbols, token, version, filter) ==
  IF Truthy(symbols)
  THEN _getJson(Options(<<"l", "a", "s", "t", "?", "s", "y", "m", "b", "o", "l", "s", "=">>
                          \o Join(_strToList(symbols), <<",">>) \o <<"%", "2", "b">>,
                        Undefined, Undefined, Undefined),
                token, version, Undefined)
  ELSE _getJson(Options(<<"l", "a", "s", "t">>, Undefined, Undefined, Undefined),
                token, version, filter)

Client_last(this, symbols, filter) == last(symbols, this._token, this._version, filter)

\* deep forwarding the filter with a symbol too, as auction and the rest do
deep_filtered(symbol, token, version, filter) ==
  IF _raiseIfNotStr(symbol) THEN Throw("TypeArgumentError")
  ELSE IF Truthy(symbol)
  THEN _getJson(Options(<<"d", "e", "e", "p", "?", "s", "y", "m", "b", "o", "l", "s", "=">>
                          \o Interpolate(symbol),
                        Undefined, Undefined, Undefined),
                token, version, filter)
  ELSE _getJson(Options(<<"d", "e", "e", "p">>,
                        Undefined, Undefined, Undefined),
                token, version, filter)

\* deep with the symbol branch lost: the bare path whatever the symbol
deep_bare(symbol, token, version, filter) ==
  IF _raiseIfNotStr(symbol) THEN Throw("TypeArgumentError")
  ELSE _getJson(Options(<<"d", "e", "e", "p">>,
                        Undefined, Undefined, Undefined),
                token, version, filter)

deep(symbol, token, version, filter) ==
  IF _raiseIfNotStr(symbol) THEN Throw("TypeArgumentError")
  ELSE IF Truthy(symbol)
  THEN _getJson(Options(<<"d", "e", "e", "p", "?", "s", "y", "m", "b", "o", "l", "s", "=">>
                          \o Interpolate(symbol),
                        Undefined, Undefined, Undefined),
                token, version, Undefined)
  ELSE _getJson(Options(<<"d", "e", "e", "p">>,
                        Undefined, Undefined, Undefined),
                token, version, filter)

Client_deep(this, symbol, filter) == deep(symbol, this._token, this._version, filter)

auction(symbol, token, version, filter) ==
  IF _raiseIfNotStr(symbol) THEN Throw("TypeArgumentError")
  ELSE IF Truthy(symbol)
  THEN _getJson(Options(<<"d", "e", "e", "p", "/", "a", "u", "c", "t", "i", "o", "n", "?", "s", "y", "m", "b", "o", "l", "s", "=">>
                          \o Interpolate(symbol),
                        Undefined, Undefined, Undefined),
                token, version, filter)
  ELSE _getJson(Options(<<"d", "e", "e", "p", "/", "a", "u", "c", "t", "i", "o", "n">>,
                        Undefined, Undefined, Undefined),
                token, version, filter)

Client_auction(this, symbol, filter) == auction(symbol, this._token, this._version, filter)

book(symbol, token, version, filter) ==
  IF _raiseIfNotStr(symbol) THEN Throw("TypeArgumentError")
  ELSE IF Truthy(symbol)
  THEN _getJson(Options(<<"d", "e", "e", "p", "/", "b", "o", "o", "k", "?", "s", "y", "m", "b", "o", "l", "s", "=">>
                          \o Interpolate(symbol),
                        Undefined, Undefined, Undefined),
                token, version, filter)
  ELSE _getJson(Options(<<"d", "e", "e", "p", "/", "b", "o", "o", "k">>,
                        Undefined, Undefined, Undefined),
                token, version, filter)

Client_book(this, symbol, filter) == book(symbol, this._token, this._version, filter)

opHaltStatus(symbol, token, version, filter) ==
  IF _raiseIfNotStr(symbol) THEN Throw("TypeArgumentError")
  ELSE IF Truthy(symbol)
  THEN _getJson(Options(<<"d", "e", "e", "p", "/", "o", "p", "-", "h", "a", "l", "t", "-", "s", "t", "a", "t", "u", "s", "?", "s", "y", "m", "b", "o", "l", "s", "=">>
                          \o Interpolate(symbol),
                        Undefined, Undefined, Undefined),
                token, version, filter)
  ELSE _getJson(Options(<<"d", "e", "e", "p", "/", "o", "p", "-", "h", "a", "l", "t", "-", "s", "t", "a", "t", "u", "s">>,
                        Undefined, Undefined, Undefined),
                token, version, filter)

Client_opHaltStatus(this, symbol, filter) == opHaltStatus(symbol, this._token, this._version, filter)

officialPrice(symbol, token, version, filter) ==
  IF _raiseIfNotStr(symbol) THEN Throw("TypeArgumentError")
  ELSE IF Truthy(symbol)
  THEN _getJson(Options(<<"d", "e", "e", "p", "/", "o", "f", "f", "i", "c", "i", "a", "l", "-", "p", "r", "i", "c", "e", "?", "s", "y", "m", "b", "o", "l", "s", "=">>
                          \o Interpolate(symbol),
                        Undefined, Undefined, Undefined),
                token, version, filter)
  ELSE _getJson(Options(<<"d", "e", "e", "p", "/", "o", "f", "f", "i", "c", "i", "a", "l", "-", "p", "r", "i", "c", "e">>,
                        Undefined, Undefined, Undefined),
                token, version, filter)

Client_officialPrice(this, symbol, filter) == officialPrice(symbol, this._token, this._version, filter)

securityEvent(symbol, token, version, filter) ==
  IF _raiseIfNotStr(symbol) THEN Throw("TypeArgumentError")
  ELSE IF Truthy(symbol)
  THEN _getJson(Options(<<"d", "e", "e", "p", "/", "s", "e", "c", "u", "r", "i", "t", "y", "-", "e", "v", "e", "n", "t", "?", "s", "y", "m", "b", "o", "l", "s", "=">>
                          \o Interpolate(symbol),
                        Undefined, Undefined, Undefined),
                token, version, filter)
  ELSE _getJson(Options(<<"d", "e", "e", "p", "/", "s", "e", "c", "u", "r", "i", "t", "y", "-", "e", "v", "e", "n", "t">>,
                        Undefined, Undefined, Undefined),
                token, version, filter)

Client_securityEvent(this, symbol, filter) == securityEvent(symbol, this._token, this._version, filter)

ssrStatus(symbol, token, version, filter) ==
  IF _raiseIfNotStr(symbol) THEN Throw("TypeArgumentError")
  ELSE IF Truthy(symbol)
  THEN _getJson(Options(<<"d", "e", "e", "p", "/", "s", "s", "r", "-", "s", "t", "a", "t", "u", "s", "?", "s", "y", "m", "b", "o", "l", "s", "=">>
                          \o Interpolate(symbol),
                        Undefined, Undefined, Undefined),
                token, version, filter)
  ELSE _getJson(Options(<<"d", "e", "e", "p", "/", "s", "s", "r", "-", "s", "t", "a", "t", "u", "s">>,
                        Undefined, Undefined, Undefined),
                token, version, filter)

Client_ssrStatus(this, symbol, filter) == ssrStatus(symbol, this._token, this._version, filter)

systemEvent(symbol, token, version, filter) ==
  IF _raiseIfNotStr(symbol) THEN Throw("TypeArgumentError")
  ELSE IF Truthy(symbol)
  THEN _getJson(Options(<<"d", "e", "e", "p", "/", "s", "y", "s", "t", "e", "m", "-", "e", "v", "e", "n", "t", "?", "s", "y", "m", "b", "o", "l", "s", "=">>
                          \o Interpolate(symbol),
                        Undefined, Undefined, Undefined),
                token, version, filter)
  ELSE _getJson(Options(<<"d", "e", "e", "p", "/", "s", "y", "s", "t", "e", "m", "-", "e", "v", "e", "n", "t">>,
                        Undefined, Undefined, Undefined),
                token, version, filter)

Client_systemEvent(this, symbol, filter) == systemEvent(symbol, this._token, this._version, filter)

\* trades without its _raiseIfNotStr guard
trades_unguarded(symbol, token, version, filter) ==
  IF Truthy(symbol)
  THEN _getJson(Options(<<"d", "e", "e", "p", "/", "t", "r", "a", "d", "e", "s", "?", "s", "y", "m", "b", "o", "l", "s", "=">>
                          \o Interpolate(symbol),
                        Undefined, Undefined, Undefined),
                token, version, filter)
  ELSE _getJson(Options(<<"d", "e", "e", "p", "/", "t", "r", "a", "d", "e", "s">>,
                        Undefined, Undefined, Undefined),
                token, version, filter)

trades(symbol, token, version, filter) ==
  IF _raiseIfNotStr(symbol) THEN Throw("TypeArgumentError")
  ELSE IF Truthy(symbol)
  THEN _getJson(Options(<<"d", "e", "e", "p", "/", "t", "r", "a", "d", "e", "s", "?", "s", "y", "m", "b", "o", "l", "s", "=">>
                          \o Interpolate(symbol),
                        Undefined, Undefined, Undefined),
                token, version, filter)
  ELSE _getJson(Options(<<"d", "e", "e", "p", "/", "t", "r", "a", "d", "e", "s">>,
                        Undefined, Undefined, Undefined),
                token, version, filter)

Client_trades(this, symbol, filter) == trades(symbol, this._token, this._version, filter)

tradeBreak(symbol, token, version, filter) ==
  IF _raiseIfNotStr(symbol) THEN Throw("TypeArgumentError")
  ELSE IF Truthy(symbol)
  THEN _getJson(Options(<<"d", "e", "e", "p", "/", "t", "r", "a", "d", "e", "-", "b", "r", "e", "a", "k", "s", "?", "s", "y", "m", "b", "o", "l", "s", "=">>
                          \o Interpolate(symbol),
                        Undefined, Undefined, Undefined),
                token, version, filter)
  ELSE _getJson(Options(<<"d", "e", "e", "p", "/", "t", "r", "a", "d", "e", "-", "b", "r", "e", "a", "k", "s">>,
                        Undefined, Undefined, Undefined),
                token, version, filter)

Client_tradeBreak(this, symbol, filter) == tradeBreak(symbol, this._token, this._version, filter)

tradingStatus(symbol, token, version, filter) ==
  IF _raiseIfNotStr(symbol) THEN Throw("TypeArgumentError")
  ELSE IF Truthy(symbol)
  THEN _getJson(Options(<<"d", "e", "e", "p", "/", "t", "r", "a", "d", "i", "n", "g", "-", "s", "t", "a", "t", "u", "s", "?", "s", "y", "m", "b", "o", "l", "s", "=">>
                          \o Interpolate(symbol),
                        Undefined, Undefined, Undefined),
                token, version, filter)
  ELSE _getJson(Options(<<"d", "e", "e", "p", "/", "t", "r", "a", "d", "i", "n", "g", "-", "s", "t", "a", "t", "u", "s">>,
                        Undefined, Undefined, Undefined),
                token, version, filter)

Client_tradingStatus(this, symbol, filter) == tradingStatus(symbol, this._token, this._version, filter)

hist(date, token, version, filter) ==
  IF Truthy(date)
  THEN IF _strOrDate_throws(date) THEN Throw("InvalidDateError")
       ELSE _getJson(Options(<<"h", "i", "s", "t", "?", "d", "a", "t", "e", "=">> \o _strOrDate(date),
                             Undefined, Undefined, Undefined),
                     token, version, filter)
  ELSE _getJson(Options(<<"h", "i", "s", "t">>, Undefined, Undefined, Undefined),
                token, version, filter)

Client_hist(this, date, filter) == hist(date, this._token, this._version, filter)

-----------------------------------------------------------------------------
(* ref-data symbols and their list conversions *)

\* the default "" of the token, version and filter parameters
Empty == Str(<<>>)

symbols(token, version, filter) ==
  _getJson(Options(<<"r", "e", "f", "-", "d", "a", "t", "a", "/", "s", "y", "m", "b", "o", "l", "s">>,
                   Default(token, Empty), Default(version, Empty), Default(filter, Empty)),
           Undefined, Undefined, Undefined)

Client_symbols(this, filter) == symbols(this._token, this._version, filter)

iexSymbols(token, version, filter) ==
  _getJson(Options(<<"r", "e", "f", "-", "d", "a", "t", "a", "/", "i", "e", "x", "/", "s", "y", "m", "b", "o", "l", "s">>,
                   Default(token, Empty), Default(version, Empty), Default(filter, Empty)),
           Undefined, Undefined, Undefined)

Client_iexSymbols(this, filter) == iexSymbols(this._token, this._version, filter)

mutualFundSymbols(token, version, filter) ==
  _getJson(Options(<<"r", "e", "f", "-", "d", "a", "t", "a", "/", "m", "u", "t", "u", "a", "l", "-", "f", "u", "n", "d", "s", "/", "s", "y", "m", "b", "o", "l", "s">>,
                   Default(token, Empty), Default(version, Empty), Default(filter, Empty)),
           Undefined, Undefined, Undefined)

Client_mutualFundSymbols(this, filter) == mutualFundSymbols(this._token, this._version, filter)

otcSymbols(token, version, filter) ==
  _getJson(Options(<<"r", "e", "f", "-", "d", "a", "t", "a", "/", "o", "t", "c", "/", "s", "y", "m", "b", "o", "l", "s">>,
                   Default(token, Empty), Default(version, Empty), Default(filter, Empty)),
           Undefined, Undefined, Undefined)

Client_otcSymbols(this, filter) == otcSymbols(this._token, this._version, filter)

\* internationalSymbols that looks at the exchange before the region
internationalSymbols_exchangeFirst(region, exchange, token, version, filter) ==
  IF Truthy(exchange)
  THEN _getJson(Options(<<"r", "e", "f", "-", "d", "a", "t", "a", "/", "e", "x", "c", "h", "a", "n", "g", "e", "/">> \o Interpolate(exchange)
                          \o <<"/", "s", "y", "m", "b", "o", "l", "s">>,
                        Default(token, Empty), Default(version, Empty), Default(filter, Empty)),
                Undefined, Undefined, Undefined)
  ELSE IF Truthy(region)
  THEN _getJson(Options(<<"r", "e", "f", "-", "d", "a", "t", "a", "/", "r", "e", "g", "i", "o", "n", "/">> \o Interpolate(region)
                          \o <<"/", "s", "y", "m", "b", "o", "l", "s">>,
                        Default(token, Empty), Default(version, Empty), Default(filter, Empty)),
                Undefined, Undefined, Undefined)
  ELSE _getJson(Options(<<"r", "e", "f", "-", "d", "a", "t", "a", "/", "r", "e", "g", "i", "o", "n", "/", "u", "s", "/", "s", "y", "m", "b", "o", "l", "s">>,
                        Default(token, Empty), Default(version, Empty), Default(filter, Empty)),
                Undefined, Undefined, Undefined)

\* internationalSymbols whose last branch asks for the plain symbols path
internationalSymbols_plain(region, exchange, token, version, filter) ==
  IF Truthy(region)
  THEN _getJson(Options(<<"r", "e", "f", "-", "d", "a", "t", "a", "/", "r", "e", "g", "i", "o", "n", "/">> \o Interpolate(region)
                          \o <<"/", "s", "y", "m", "b", "o", "l", "s">>,
                        Default(token, Empty), Default(version, Empty), Default(filter, Empty)),
                Undefined, Undefined, Undefined)
  ELSE IF Truthy(exchange)
  THEN _getJson(Options(<<"r", "e", "f", "-", "d", "a", "t", "a", "/", "e", "x", "c", "h", "a", "n", "g", "e", "/">> \o Interpolate(exchange)
                          \o <<"/", "s", "y", "m", "b", "o", "l", "s">>,
                        Default(token, Empty), Default(version, Empty), Default(filter, Empty)),
                Undefined, Undefined, Undefined)
  ELSE _getJson(Options(<<"r", "e", "f", "-", "d", "a", "t", "a", "/", "s", "y", "m", "b", "o", "l", "s">>,
                        Default(token, Empty), Default(version, Empty), Default(filter, Empty)),
                Undefined, Undefined, Undefined)

internationalSymbols(region, exchange, token, version, filter) ==
  IF Truthy(region)
  THEN _getJson(Options(<<"r", "e", "f", "-", "d", "a", "t", "a", "/", "r", "e", "g", "i", "o", "n", "/">> \o Interpolate(region)
                          \o <<"/", "s", "y", "m", "b", "o", "l", "s">>,
                        Default(token, Empty), Default(version, Empty), Default(filter, Empty)),
                Undefined, Undefined, Undefined)
  ELSE IF Truthy(exchange)
  THEN _getJson(Options(<<"r", "e", "f", "-", "d", "a", "t", "a", "/", "e", "x", "c", "h", "a", "n", "g", "e", "/">> \o Interpolate(exchange)
                          \o <<"/", "s", "y", "m", "b", "o", "l", "s">>,
                        Default(token, Empty), Default(version, Empty), Default(filter, Empty)),
                Undefined, Undefined, Undefined)
  ELSE _getJson(Options(<<"r", "e", "f", "-", "d", "a", "t", "a", "/", "r", "e", "g", "i", "o", "n", "/", "u", "s", "/", "s", "y", "m", "b", "o", "l", "s">>,
                        Default(token, Empty), Default(version, Empty), Default(filter, Empty)),
                Undefined, Undefined, Undefined)

Client_internationalSymbols(this, region, exchange, filter) ==
  internationalSymbols(region, exchange, this._token, this._version, filter)

fxSymbols(token, version, filter) ==
  _getJson(Options(<<"r", "e", "f", "-", "d", "a", "t", "a", "/", "f", "x", "/", "s", "y", "m", "b", "o", "l", "s">>,
                   Default(token, Empty), Default(version, Empty), Default(filter, Empty)),
           Undefined, Undefined, Undefined)

Client_fxSymbols(this, filter) == fxSymbols(this._token, this._version, filter)

optionsSymbols(token, version, filter) ==
  _getJson(Options(<<"r", "e", "f", "-", "d", "a", "t", "a", "/", "o", "p", "t", "i", "o", "n", "s", "/", "s", "y", "m", "b", "o", "l", "s">>,
                   Default(token, Empty), Default(version, Empty), Default(filter, Empty)),
           Undefined, Undefined, Undefined)

Client_optionsSymbols(this, filter) == optionsSymbols(this._token, this._version, filter)

cryptoSymbols(token, version, filter) ==
  _getJson(Options(<<"r", "e", "f", "-", "d", "a", "t", "a", "/", "c", "r", "y", "p", "t", "o", "/", "s", "y", "m", "b", "o", "l", "s">>,
                   Default(token, Empty), Default(version, Empty), Default(filter, Empty)),
           Undefined, Undefined, Undefined)

Client_cryptoSymbols(this, filter) == cryptoSymbols(this._token, this._version, filter)

\* the filter every list conversion asks for
SymbolFilter == Str(<<"s", "y", "m", "b", "o", "l">>)

\* convertToList = async (res) => (await res).map((record) => record.symbol)
convertToList(res) == Await(res, "convertToList")

symbolsList(token, version) == convertToList(symbols(token, version, SymbolFilter))

Client_symbolsList(this) == convertToList(symbols(this._token, this._version, SymbolFilter))

iexSymbolsList(token, version) == convertToList(iexSymbols(token, version, SymbolFilter))

Client_iexSymbolsList(this) == convertToList(iexSymbols(this._token, this._version, SymbolFilter))

mutualFundSymbolsList(token, version) == convertToList(mutualFundSymbols(token, version, SymbolFilter))

Client_mutualFundSymbolsList(this) == convertToList(mutualFundSymbols(this._token, this._version, SymbolFilter))

otcSymbolsList(token, version) == convertToList(otcSymbols(token, version, SymbolFilter))

Client_otcSymbolsList(this) == convertToList(otcSymbols(this._token, this._version, SymbolFilter))

internationalSymbolsList(region, exchange, token, version) ==
  convertToList(internationalSymbols(region, exchange, token, version, SymbolFilter))

Client_internationalSymbolsList(this, region, exchange) ==
  convertToList(internationalSymbols(region, exchange, this._token, this._version, SymbolFilter))

fxSymbolsList(token, version) == Await(fxSymbols(token, version, Undefined), "fxSymbolsList")

Client_fxSymbolsList(this) == fxSymbolsList(this._token, this._version)

optionsSymbolsList(token, version) == convertToList(optionsSymbols(token, version, SymbolFilter))

Client_optionsSymbolsList(this) == convertToList(optionsSymbols(this._token, this._version, SymbolFilter))

cryptoSymbolsList(token, version) == convertToList(cryptoSymbols(token, version, SymbolFilter))

Client_cryptoSymbolsList(this) == convertToList(cryptoSymbols(this._token, this._version, SymbolFilter))

isinLookup(isin, token, version, filter) ==
  _getJson(Options(<<"r", "e", "f", "-", "d", "a", "t", "a", "/", "i", "s", "i", "n", "?", "i", "s", "i", "n", "=">> \o Interpolate(isin),
                   Default(token, Empty), Default(version, Empty), Default(filter, Empty)),
           Undefined, Undefined, Undefined)

Client_isinLookup(this, isin, filter) == isinLookup(isin, this._token, this._version, filter)

RECURSIVE MapSymbol(_)
\* records.map((record) => record.symbol)
MapSymbol(records) ==
  IF Len(records) = 0 THEN <<>>
  ELSE <<Head(records).symbol>> \o MapSymbol(Tail(records))

\* a rejected res caught and turned into an empty list
convertToList_map_swallow(o) ==
  IF o.state # "resolved" THEN Resolved(Json("strings", <<>>, <<>>))
  ELSE IF o.value.k = "array" THEN Resolved(Json("strings", MapSymbol(o.value.ra), <<>>))
  ELSE Rejected("TypeError", 0)

\* the map started at the second record
convertToList_map_skip(o) ==
  IF o.state # "resolved" THEN o
  ELSE IF o.value.k = "array"
  THEN Resolved(Json("strings", MapSymbol(IF Len(o.value.ra) = 0 THEN <<>> ELSE Tail(o.value.ra)), <<>>))
  ELSE Rejected("TypeError", 0)

\* the body of convertToList after its await: a rejected res rethrows, an
\* array is mapped, anything else has no map method
convertToList_map(o) ==
  IF o.state # "resolved" THEN o
  ELSE IF o.value.k = "array" THEN Resolved(Json("strings", MapSymbol(o.value.ra), <<>>))
  ELSE Rejected("TypeError", 0)

RECURSIVE PushCodes(_)
\* fx.currencies.forEach((record) => ret[0].push(record.code))
PushCodes(records) ==
  IF Len(records) = 0 THEN <<>>
  ELSE <<Head(records).code>> \o PushCodes(Tail(records))

RECURSIVE PushPairs_reversed(_)
\* the pair code put together as toCurrency + fromCurrency
PushPairs_reversed(records) ==
  IF Len(records) = 0 THEN <<>>
  ELSE <<Head(records).toCurrency \o Head(records).fromCurrency>>
         \o PushPairs_reversed(Tail(records))

RECURSIVE PushPairs(_)
\* fx.pairs.forEach((record) => ret[1].push(record.fromCurrency + record.toCurrency))
PushPairs(records) ==
  IF Len(records) = 0 THEN <<>>
  ELSE <<Head(records).fromCurrency \o Head(records).toCurrency>> \o PushPairs(Tail(records))

\* the body of fxSymbolsList after its await
fxSymbolsList_body(o) ==
  IF o.state # "resolved" THEN o
  ELSE IF o.value.k = "fx"
  THEN Resolved(Json("pair", PushCodes(o.value.ra), PushPairs(o.value.rb)))
  ELSE Rejected("TypeError", 0)

\* the settled value of a pending call once the transport has answered
Settle(p, resp) ==
  CASE p.then = "convertToList" -> convertToList_map(GetJsonOutcome(resp))
    [] p.then = "fxSymbolsList" -> fxSymbolsList_body(GetJsonOutcome(resp))
    [] OTHER -> GetJsonOutcome(resp)

-----------------------------------------------------------------------------
(* The callers' arguments and the transport's answers. *)

AAPL == <<"A", "A", "P", "L">>

MSFT == <<"M", "S", "F", "T">>

SymbolNames == {AAPL, MSFT}

SymbolArgs ==
  {Undefined, Empty} \cup {Str(s) : s \in SymbolNames}
    \cup {Arr(l) : l \in SeqsUpTo(SymbolNames, MaxSymbols)}

TokenArgs == {Undefined, Str(<<"p", "k">>)}

VersionArgs == {Undefined, Str(<<"v", "1">>)}

FilterArgs == {Undefined, SymbolFilter}

RegionArgs == {Undefined, Empty, Str(<<"u", "s">>), Str(<<"c", "a">>)}

ExchangeArgs == {Undefined, Empty, Str(<<"t", "s", "e">>)}

IsinArgs == {Str(<<"U", "S", "0", "3", "7", "8", "3", "3", "1", "0", "0", "5">>)}

DateArgs ==
  {Undefined, Str(<<"2", "0", "2", "0", "0", "1", "0", "2">>), Str(<<"t", "o", "d", "a", "y">>), Date(<<2020, 1, 2>>)}

\* the Client objects a caller constructs
Clients == {NewClient(Str(<<"s", "k">>), Str(<<"b", "e", "t", "a">>))}

USD == <<"U", "S", "D">>

JPY == <<"J", "P", "Y">>

SymbolRecords == {SymbolRecord(s) : s \in SymbolNames}

CurrencyRecords == {CurrencyRecord(c) : c \in {USD, JPY}}

PairRecords ==
  {PairRecord(USD, JPY), PairRecord(JPY, USD)}

Bodies ==
  {Json("array", l, <<>>) : l \in SeqsUpTo(SymbolRecords, MaxRecords)}
    \cup {Json("fx", cp[1], cp[2]) :
            cp \in {x \in SeqsUpTo(CurrencyRecords, MaxRecords)
                             \X SeqsUpTo(PairRecords, MaxRecords) :
                      Len(x[1]) + Len(x[2]) <= MaxRecords}}
    \cup {Json("object", <<>>, <<>>), Json("malformed", <<>>, <<>>)}

Responses ==
  {Response(200, b) : b \in Bodies}
    \cup {Response(s, Json("object", <<>>, <<>>)) : s \in {404, 500}}

NoResponse == Response(0, NoValue)

-----------------------------------------------------------------------------
(* The state machine: a caller invokes an endpoint, as a free function or  *)
(* as a Client method, and awaits it; the transport answers.               *)

Init ==
  /\ client \in Clients
  /\ calls = <<>>
  /\ network = <<>>

Settled(c) == c.outcome.state # "pending"

\* the synchronous part of a call, made by a caller that awaits one call at a
\* time: the endpoint runs up to the core, which issues the GET, or throws
\* before it
Start(fn, via, args, p) ==
  /\ calls = <<>>
  /\ calls' = <<Call(fn, via, args, p, NoResponse,
                      IF p.kind = "throw" THEN Thrown(p.err) ELSE Pending)>>
  /\ network' = IF p.kind = "request" THEN <<RequestUrl(p)>> ELSE <<>>
  /\ UNCHANGED client

\* a transport answer outside 2xx answered by asking once more
Respond_retry ==
  \E i \in 1..Len(calls), resp \in Responses :
    /\ ~Settled(calls[i])
    /\ IF ~IsSuccess(resp.status) /\ Len(network) < 2
       THEN /\ network' = Append(network, RequestUrl(calls[i].promise))
            /\ UNCHANGED <<client, calls>>
       ELSE /\ calls' = [calls EXCEPT ![i].response = resp,
                                      ![i].outcome = Settle(calls[i].promise, resp)]
            /\ UNCHANGED <<client, network>>

\* the transport answers a pending call and its continuation runs
Respond ==
  \E i \in 1..Len(calls), resp \in Responses :
    /\ ~Settled(calls[i])
    /\ calls' = [calls EXCEPT ![i].response = resp,
                              ![i].outcome = Settle(calls[i].promise, resp)]
    /\ UNCHANGED <<client, network>>

\* the caller has its result and drops the settled pending value
Return ==
  /\ calls # <<>>
  /\ \A i \in 1..Len(calls) : Settled(calls[i])
  /\ calls' = <<>>
  /\ network' = <<>>
  /\ UNCHANGED client

Call_tops ==
  \E syms \in SymbolArgs, filter \in FilterArgs :
    \/ \E token \in TokenArgs, version \in VersionArgs :
         Start("tops", "function", Args(syms, Undefined, token, version, filter),
               tops(syms, token, version, filter))
    \/ Start("tops", "method", Args(syms, Undefined, Undefined, Undefined, filter),
             Client_tops(client, syms, filter))

Call_last ==
  \E syms \in SymbolArgs, filter \in FilterArgs :
    \/ \E token \in TokenArgs, version \in VersionArgs :
         Start("last", "function", Args(syms, Undefined, token, version, filter),
               last(syms, token, version, filter))
    \/ Start("last", "method", Args(syms, Undefined, Undefined, Undefined, filter),
             Client_last(client, syms, filter))

Call_deep ==
  \E symbol \in SymbolArgs, filter \in FilterArgs :
    \/ \E token \in TokenArgs, version \in VersionArgs :
         Start("deep", "function", Args(symbol, Undefined, token, version, filter),
               deep(symbol, token, version, filter))
    \/ Start("deep", "method", Args(symbol, Undefined, Undefined, Undefined, filter),
             Client_deep(client, symbol, filter))

Call_auction ==
  \E symbol \in SymbolArgs, filter \in FilterArgs :
    \/ \E token \in TokenArgs, version \in VersionArgs :
         Start("auction", "function", Args(symbol, Undefined, token, version, filter),
               auction(symbol, token, version, filter))
    \/ Start("auction", "method", Args(symbol, Undefined, Undefined, Undefined, filter),
             Client_auction(client, symbol, filter))

Call_book ==
  \E symbol \in SymbolArgs, filter \in FilterArgs :
    \/ \E token \in TokenArgs, version \in VersionArgs :
         Start("book", "function", Args(symbol, Undefined, token, version, filter),
               book(symbol, token, version, filter))
    \/ Start("book", "method", Args(symbol, Undefined, Undefined, Undefined, filter),
             Client_book(client, symbol, filter))

Call_opHaltStatus ==
  \E symbol \in SymbolArgs, filter \in FilterArgs :
    \/ \E token \in TokenArgs, version \in VersionArgs :
         Start("opHaltStatus", "function", Args(symbol, Undefined, token, version, filter),
               opHaltStatus(symbol, token, version, filter))
    \/ Start("opHaltStatus", "method", Args(symbol, Undefined, Undefined, Undefined, filter),
             Client_opHaltStatus(client, symbol, filter))

Call_officialPrice ==
  \E symbol \in SymbolArgs, filter \in FilterArgs :
    \/ \E token \in TokenArgs, version \in VersionArgs :
         Start("officialPrice", "function", Args(symbol, Undefined, token, version, filter),
               officialPrice(symbol, token, version, filter))
    \/ Start("officialPrice", "method", Args(symbol, Undefined, Undefined, Undefined, filter),
             Client_officialPrice(client, symbol, filter))

Call_securityEvent ==
  \E symbol \in SymbolArgs, filter \in FilterArgs :
    \/ \E token \in TokenArgs, version \in VersionArgs :
         Start("securityEvent", "function", Args(symbol, Undefined, token, version, filter),
               securityEvent(symbol, token, version, filter))
    \/ Start("securityEvent", "method", Args(symbol, Undefined, Undefined, Undefined, filter),
             Client_securityEvent(client, symbol, filter))

Call_ssrStatus ==
  \E symbol \in SymbolArgs, filter \in FilterArgs :
    \/ \E token \in TokenArgs, version \in VersionArgs :
         Start("ssrStatus", "function", Args(symbol, Undefined, token, version, filter),
               ssrStatus(symbol, token, version, filter))
    \/ Start("ssrStatus", "method", Args(symbol, Undefined, Undefined, Undefined, filter),
             Client_ssrStatus(client, symbol, filter))

Call_systemEvent ==
  \E symbol \in SymbolArgs, filter \in FilterArgs :
    \/ \E token \in TokenArgs, version \in VersionArgs :
         Start("systemEvent", "function", Args(symbol, Undefined, token, version, filter),
               systemEvent(symbol, token, version, filter))
    \/ Start("systemEvent", "method", Args(symbol, Undefined, Undefined, Undefined, filter),
             Client_systemEvent(client, symbol, filter))

Call_trades ==
  \E symbol \in SymbolArgs, filter \in FilterArgs :
    \/ \E token \in TokenArgs, version \in VersionArgs :
         Start("trades", "function", Args(symbol, Undefined, token, version, filter),
               trades(symbol, token, version, filter))
    \/ Start("trades", "method", Args(symbol, Undefined, Undefined, Undefined, filter),
             Client_trades(client, symbol, filter))

Call_tradeBreak ==
  \E symbol \in SymbolArgs, filter \in FilterArgs :
    \/ \E token \in TokenArgs, version \in VersionArgs :
         Start("tradeBreak", "function", Args(symbol, Undefined, token, version, filter),
               tradeBreak(symbol, token, version, filter))
    \/ Start("tradeBreak", "method", Args(symbol, Undefined, Undefined, Undefined, filter),
             Client_tradeBreak(client, symbol, filter))

Call_tradingStatus ==
  \E symbol \in SymbolArgs, filter \in FilterArgs :
    \/ \E token \in TokenArgs, version \in VersionArgs :
         Start("tradingStatus", "function", Args(symbol, Undefined, token, version, filter),
               tradingStatus(symbol, token, version, filter))
    \/ Start("tradingStatus", "method", Args(symbol, Undefined, Undefined, Undefined, filter),
             Client_tradingStatus(client, symbol, filter))

Call_hist ==
  \E date \in DateArgs, filter \in FilterArgs :
    \/ \E token \in TokenArgs, version \in VersionArgs :
         Start("hist", "function", Args(date, Undefined, token, version, filter),
               hist(date, token, version, filter))
    \/ Start("hist", "method", Args(date, Undefined, Undefined, Undefined, filter),
             Client_hist(client, date, filter))

Call_symbols ==
  \E filter \in FilterArgs :
    \/ \E token \in TokenArgs, version \in VersionArgs :
         Start("symbols", "function", Args(Undefined, Undefined, token, version, filter),
               symbols(token, version, filter))
    \/ Start("symbols", "method", Args(Undefined, Undefined, Undefined, Undefined, filter),
             Client_symbols(client, filter))

Call_iexSymbols ==
  \E filter \in FilterArgs :
    \/ \E token \in TokenArgs, version \in VersionArgs :
         Start("iexSymbols", "function", Args(Undefined, Undefined, token, version, filter),
               iexSymbols(token, version, filter))
    \/ Start("iexSymbols", "method", Args(Undefined, Undefined, Undefined, Undefined, filter),
             Client_iexSymbols(client, filter))

Call_mutualFundSymbols ==
  \E filter \in FilterArgs :
    \/ \E token \in TokenArgs, version \in VersionArgs :
         Start("mutualFundSymbols", "function", Args(Undefined, Undefined, token, version, filter),
               mutualFundSymbols(token, version, filter))
    \/ Start("mutualFundSymbols", "method", Args(Undefined, Undefined, Undefined, Undefined, filter),
             Client_mutualFundSymbols(client, filter))

Call_otcSymbols ==
  \E filter \in FilterArgs :
    \/ \E token \in TokenArgs, version \in VersionArgs :
         Start("otcSymbols", "function", Args(Undefined, Undefined, token, version, filter),
               otcSymbols(token, version, filter))
    \/ Start("otcSymbols", "method", Args(Undefined, Undefined, Undefined, Undefined, filter),
             Client_otcSymbols(client, filter))

Call_internationalSymbols ==
  \E region \in RegionArgs, exchange \in ExchangeArgs, filter \in FilterArgs :
    \/ \E token \in TokenArgs, version \in VersionArgs :
         Start("internationalSymbols", "function", Args(region, exchange, token, version, filter),
               internationalSymbols(region, exchange, token, version, filter))
    \/ Start("internationalSymbols", "method", Args(region, exchange, Undefined, Undefined, filter),
             Client_internationalSymbols(client, region, exchange, filter))

Call_fxSymbols ==
  \E filter \in FilterArgs :
    \/ \E token \in TokenArgs, version \in VersionArgs :
         Start("fxSymbols", "function", Args(Undefined, Undefined, token, version, filter),
               fxSymbols(token, version, filter))
    \/ Start("fxSymbols", "method", Args(Undefined, Undefined, Undefined, Undefined, filter),
             Client_fxSymbols(client, filter))

Call_optionsSymbols ==
  \E filter \in FilterArgs :
    \/ \E token \in TokenArgs, version \in VersionArgs :
         Start("optionsSymbols", "function", Args(Undefined, Undefined, token, version, filter),
               optionsSymbols(token, version, filter))
    \/ Start("optionsSymbols", "method", Args(Undefined, Undefined, Undefined, Undefined, filter),
             Client_optionsSymbols(client, filter))

Call_cryptoSymbols ==
  \E filter \in FilterArgs :
    \/ \E token \in TokenArgs, version \in VersionArgs :
         Start("cryptoSymbols", "function", Args(Undefined, Undefined, token, version, filter),
               cryptoSymbols(token, version, filter))
    \/ Start("cryptoSymbols", "method", Args(Undefined, Undefined, Undefined, Undefined, filter),
             Client_cryptoSymbols(client, filter))

Call_symbolsList ==
  \/ \E token \in TokenArgs, version \in VersionArgs :
       Start("symbolsList", "function", Args(Undefined, Undefined, token, version, Undefined),
             symbolsList(token, version))
  \/ Start("symbolsList", "method", Args(Undefined, Undefined, Undefined, Undefined, Undefined),
           Client_symbolsList(client))

Call_iexSymbolsList ==
  \/ \E token \in TokenArgs, version \in VersionArgs :
       Start("iexSymbolsList", "function", Args(Undefined, Undefined, token, version, Undefined),
             iexSymbolsList(token, version))
  \/ Start("iexSymbolsList", "method", Args(Undefined, Undefined, Undefined, Undefined, Undefined),
           Client_iexSymbolsList(client))

Call_mutualFundSymbolsList ==
  \/ \E token \in TokenArgs, version \in VersionArgs :
       Start("mutualFundSymbolsList", "function", Args(Undefined, Undefined, token, version, Undefined),
             mutualFundSymbolsList(token, version))
  \/ Start("mutualFundSymbolsList", "method", Args(Undefined, Undefined, Undefined, Undefined, Undefined),
           Client_mutualFundSymbolsList(client))

Call_otcSymbolsList ==
  \/ \E token \in TokenArgs, version \in VersionArgs :
       Start("otcSymbolsList", "function", Args(Undefined, Undefined, token, version, Undefined),
             otcSymbolsList(token, version))
  \/ Start("otcSymbolsList", "method", Args(Undefined, Undefined, Undefined, Undefined, Undefined),
           Client_otcSymbolsList(client))

Call_internationalSymbolsList ==
  \E region \in RegionArgs, exchange \in ExchangeArgs :
    \/ \E token \in TokenArgs, version \in VersionArgs :
         Start("internationalSymbolsList", "function", Args(region, exchange, token, version, Undefined),
               internationalSymbolsList(region, exchange, token, version))
    \/ Start("internationalSymbolsList", "method", Args(region, exchange, Undefined, Undefined, Undefined),
             Client_internationalSymbolsList(client, region, exchange))

Call_fxSymbolsList ==
  \/ \E token \in TokenArgs, version \in VersionArgs :
       Start("fxSymbolsList", "function", Args(Undefined, Undefined, token, version, Undefined),
             fxSymbolsList(token, version))
  \/ Start("fxSymbolsList", "method", Args(Undefined, Undefined, Undefined, Undefined, Undefined),
           Client_fxSymbolsList(client))

Call_optionsSymbolsList ==
  \/ \E token \in TokenArgs, version \in VersionArgs :
       Start("optionsSymbolsList", "function", Args(Undefined, Undefined, token, version, Undefined),
             optionsSymbolsList(token, version))
  \/ Start("optionsSymbolsList", "method", Args(Undefined, Undefined, Undefined, Undefined, Undefined),
           Client_optionsSymbolsList(client))

Call_cryptoSymbolsList ==
  \/ \E token \in TokenArgs, version \in VersionArgs :
       Start("cryptoSymbolsList", "function", Args(Undefined, Undefined, token, version, Undefined),
             cryptoSymbolsList(token, version))
  \/ Start("cryptoSymbolsList", "method", Args(Undefined, Undefined, Undefined, Undefined, Undefined),
           Client_cryptoSymbolsList(client))

Call_isinLookup ==
  \E isin \in IsinArgs, filter \in FilterArgs :
    \/ \E token \in TokenArgs, version \in VersionArgs :
         Start("isinLookup", "function", Args(isin, Undefined, token, version, filter),
               isinLookup(isin, token, version, filter))
    \/ Start("isinLookup", "method", Args(isin, Undefined, Undefined, Undefined, filter),
             Client_isinLookup(client, isin, filter))

Next ==
  \/ Call_symbols
  \/ Call_iexSymbols
  \/ Call_mutualFundSymbols
  \/ Call_otcSymbols
  \/ Call_internationalSymbols
  \/ Call_fxSymbols
  \/ Call_optionsSymbols
  \/ Call_cryptoSymbols
  \/ Call_symbolsList
  \/ Call_iexSymbolsList
  \/ Call_mutualFundSymbolsList
  \/ Call_otcSymbolsList
  \/ Call_internationalSymbolsList
  \/ Call_fxSymbolsList
  \/ Call_optionsSymbolsList
  \/ Call_cryptoSymbolsList
  \/ Call_isinLookup
  \/ Call_tops
  \/ Call_last
  \/ Call_deep
  \/ Call_auction
  \/ Call_book
  \/ Call_opHaltStatus
  \/ Call_officialPrice
  \/ Call_securityEvent
  \/ Call_ssrStatus
  \/ Call_systemEvent
  \/ Call_trades
  \/ Call_tradeBreak
  \/ Call_tradingStatus
  \/ Call_hist
  \/ Respond
  \/ Return

Spec == Init /\ [][Next]_vars

-----------------------------------------------------------------------------
(* Calls made through one Client without awaiting in between. *)

\* the symbol arguments of the calls in flight
ConcSymbolArgs == {Undefined, Str(AAPL), Str(MSFT), Arr(<<Str(AAPL)>>)}

\* the transport's answers to the calls in flight
ConcResponses ==
  {Response(200, Json("array", <<SymbolRecord(AAPL), SymbolRecord(MSFT)>>, <<>>)),
   Response(200, Json("fx", <<CurrencyRecord(USD)>>, <<PairRecord(USD, JPY)>>)),
   Response(404, Json("object", <<>>, <<>>))}

\* a call that builds its request in one descriptor kept by the module, so the
\* calls still in flight see the newest request
StartConc_shared(fn, via, args, p) ==
  /\ Len(calls) < MaxCalls
  /\ calls' = Append([i \in 1..Len(calls) |->
                        IF Settled(calls[i]) THEN calls[i]
                        ELSE Call(calls[i].fn, calls[i].via, calls[i].args, p,
                                  calls[i].response, calls[i].outcome)],
                     Call(fn, via, args, p, NoResponse,
                          IF p.kind = "throw" THEN Thrown(p.err) ELSE Pending))
  /\ network' = IF p.kind = "request" THEN Append(network, RequestUrl(p)) ELSE network
  /\ UNCHANGED client

\* the synchronous part of a call made while others are in flight: the method
\* builds its own request from its arguments and the Client's token and version
StartConc(fn, via, args, p) ==
  /\ Len(calls) < MaxCalls
  /\ calls' = Append(calls, Call(fn, via, args, p, NoResponse,
                                 IF p.kind = "throw" THEN Thrown(p.err) ELSE Pending))
  /\ network' = IF p.kind = "request" THEN Append(network, RequestUrl(p)) ELSE network
  /\ UNCHANGED client

Conc_deep ==
  \E symbol \in ConcSymbolArgs :
    StartConc("deep", "method", Args(symbol, Undefined, Undefined, Undefined, Undefined),
              Client_deep(client, symbol, Undefined))

Conc_symbolsList ==
  StartConc("symbolsList", "method", Args(Undefined, Undefined, Undefined, Undefined, Undefined),
            Client_symbolsList(client))

Conc_fxSymbolsList ==
  StartConc("fxSymbolsList", "method", Args(Undefined, Undefined, Undefined, Undefined, Undefined),
            Client_fxSymbolsList(client))

\* the transport answers any one of the calls in flight, in any order
RespondConc ==
  \E i \in 1..Len(calls), resp \in ConcResponses :
    /\ ~Settled(calls[i])
    /\ calls' = [calls EXCEPT ![i].response = resp,
                              ![i].outcome = Settle(calls[i].promise, resp)]
    /\ UNCHANGED <<client, network>>

NextConc ==
  \/ Conc_deep
  \/ Conc_symbolsList
  \/ Conc_fxSymbolsList
  \/ RespondConc
  \/ Return

SpecConc == Init /\ [][NextConc]_vars

-----------------------------------------------------------------------------
(* Properties. *)

\* the endpoints of the DEEP family that take one symbol
SingleSymbolFns ==
  {"deep", "auction", "book", "opHaltStatus", "officialPrice", "securityEvent", "ssrStatus", "systemEvent", "trades", "tradeBreak", "tradingStatus"}

\* the path prefix each of them documents
DeepPrefix(fn) ==
  CASE fn = "deep" -> <<"d", "e", "e", "p">>
    [] fn = "auction" -> <<"d", "e", "e", "p", "/", "a", "u", "c", "t", "i", "o", "n">>
    [] fn = "book" -> <<"d", "e", "e", "p", "/", "b", "o", "o", "k">>
    [] fn = "opHaltStatus" -> <<"d", "e", "e", "p", "/", "o", "p", "-", "h", "a", "l", "t", "-", "s", "t", "a", "t", "u", "s">>
    [] fn = "officialPrice" -> <<"d", "e", "e", "p", "/", "o", "f", "f", "i", "c", "i", "a", "l", "-", "p", "r", "i", "c", "e">>
    [] fn = "securityEvent" -> <<"d", "e", "e", "p", "/", "s", "e", "c", "u", "r", "i", "t", "y", "-", "e", "v", "e", "n", "t">>
    [] fn = "ssrStatus" -> <<"d", "e", "e", "p", "/", "s", "s", "r", "-", "s", "t", "a", "t", "u", "s">>
    [] fn = "systemEvent" -> <<"d", "e", "e", "p", "/", "s", "y", "s", "t", "e", "m", "-", "e", "v", "e", "n", "t">>
    [] fn = "trades" -> <<"d", "e", "e", "p", "/", "t", "r", "a", "d", "e", "s">>
    [] fn = "tradeBreak" -> <<"d", "e", "e", "p", "/", "t", "r", "a", "d", "e", "-", "b", "r", "e", "a", "k", "s">>
    [] fn = "tradingStatus" -> <<"d", "e", "e", "p", "/", "t", "r", "a", "d", "i", "n", "g", "-", "s", "t", "a", "t", "u", "s">>

NonEmptyStr(x) == IsStr(x) /\ Len(x.v) > 0

\* C1: a single-symbol DEEP endpoint called with a non-empty string s hands
\* the core the path <prefix>?symbols=s, and called with "" or with no symbol
\* hands it the bare <prefix>
C1_SingleSymbolPath ==
  \A i \in 1..Len(calls) :
    LET c == calls[i]
    IN  c.fn \in SingleSymbolFns =>
          /\ NonEmptyStr(c.args.a1) =>
                /\ c.promise.kind = "request"
                /\ c.promise.options.url
                     = DeepPrefix(c.fn) \o <<"?", "s", "y", "m", "b", "o", "l", "s", "=">> \o c.args.a1.v
          /\ c.args.a1 \in {Undefined, Empty} =>
                /\ c.promise.kind = "request"
                /\ c.promise.options.url = DeepPrefix(c.fn)

C1_Witness ==
  \E i \in 1..Len(calls) :
    /\ calls[i].fn = "deep"
    /\ calls[i].args.a1 = Str(AAPL)
    /\ calls[i].promise.options.url = <<"d", "e", "e", "p", "?", "s", "y", "m", "b", "o", "l", "s", "=", "A", "A", "P", "L">>

\* C2: a single-symbol endpoint called with a symbol that is provided but is
\* no string (an array) fails with TypeArgumentError, and no core call and no
\* GET is made at any point of that call
C2_NonStringSymbolThrows ==
  \A i \in 1..Len(calls) :
    LET c == calls[i]
    IN  c.fn \in SingleSymbolFns /\ c.args.a1.t = "array" =>
          /\ c.promise.kind = "throw"
          /\ c.outcome = Thrown("TypeArgumentError")
          /\ c.response = NoResponse
          /\ network = <<>>

C2_Witness ==
  \E i \in 1..Len(calls) :
    /\ calls[i].fn = "trades"
    /\ calls[i].args.a1 = Arr(<<AAPL>>)
    /\ calls[i].outcome = Thrown("TypeArgumentError")
    /\ network = <<>>

\* the free function of each name, applied to a call's arguments with the
\* given token and version
FreeCall(fn, a, token, version) ==
  CASE fn = "tops" -> tops(a.a1, token, version, a.filter)
    [] fn = "last" -> last(a.a1, token, version, a.filter)
    [] fn = "deep" -> deep(a.a1, token, version, a.filter)
    [] fn = "auction" -> auction(a.a1, token, version, a.filter)
    [] fn = "book" -> book(a.a1, token, version, a.filter)
    [] fn = "opHaltStatus" -> opHaltStatus(a.a1, token, version, a.filter)
    [] fn = "officialPrice" -> officialPrice(a.a1, token, version, a.filter)
    [] fn = "securityEvent" -> securityEvent(a.a1, token, version, a.filter)
    [] fn = "ssrStatus" -> ssrStatus(a.a1, token, version, a.filter)
    [] fn = "systemEvent" -> systemEvent(a.a1, token, version, a.filter)
    [] fn = "trades" -> trades(a.a1, token, version, a.filter)
    [] fn = "tradeBreak" -> tradeBreak(a.a1, token, version, a.filter)
    [] fn = "tradingStatus" -> tradingStatus(a.a1, token, version, a.filter)
    [] fn = "hist" -> hist(a.a1, token, version, a.filter)
    [] fn = "isinLookup" -> isinLookup(a.a1, token, version, a.filter)
    [] fn = "symbols" -> symbols(token, version, a.filter)
    [] fn = "iexSymbols" -> iexSymbols(token, version, a.filter)
    [] fn = "mutualFundSymbols" -> mutualFundSymbols(token, version, a.filter)
    [] fn = "otcSymbols" -> otcSymbols(token, version, a.filter)
    [] fn = "fxSymbols" -> fxSymbols(token, version, a.filter)
    [] fn = "optionsSymbols" -> optionsSymbols(token, version, a.filter)
    [] fn = "cryptoSymbols" -> cryptoSymbols(token, version, a.filter)
    [] fn = "internationalSymbols" -> internationalSymbols(a.a1, a.a2, token, version, a.filter)
    [] fn = "symbolsList" -> symbolsList(token, version)
    [] fn = "iexSymbolsList" -> iexSymbolsList(token, version)
    [] fn = "mutualFundSymbolsList" -> mutualFundSymbolsList(token, version)
    [] fn = "otcSymbolsList" -> otcSymbolsList(token, version)
    [] fn = "fxSymbolsList" -> fxSymbolsList(token, version)
    [] fn = "optionsSymbolsList" -> optionsSymbolsList(token, version)
    [] fn = "cryptoSymbolsList" -> cryptoSymbolsList(token, version)
    [] fn = "internationalSymbolsList" -> internationalSymbolsList(a.a1, a.a2, token, version)

\* C3: a call c.f(args..., filter) through the Client makes the request and
\* has the outcome of the free call f(args..., c._token, c._version, filter)
C3_MethodIsFreeFunction ==
  \A i \in 1..Len(calls) :
    LET c == calls[i]
        f == FreeCall(c.fn, c.args, client._token, client._version)
    IN  c.via = "method" =>
          /\ c.promise = f
          /\ network = (IF f.kind = "request" THEN <<RequestUrl(f)>> ELSE <<>>)
          /\ f.kind = "throw" => c.outcome = Thrown(f.err)
          /\ f.kind = "request" /\ Settled(c) => c.outcome = Settle(f, c.response)

C3_Witness ==
  \E i \in 1..Len(calls) :
    /\ calls[i].via = "method"
    /\ calls[i].fn = "internationalSymbolsList"
    /\ calls[i].args.a2 = Str(<<"t", "s", "e">>)
    /\ calls[i].outcome.state = "resolved"

\* the endpoint call each list conversion is built on, with filter "symbol"
BaseCall(fn, a, token, version) ==
  CASE fn = "symbolsList" -> symbols(token, version, SymbolFilter)
    [] fn = "iexSymbolsList" -> iexSymbols(token, version, SymbolFilter)
    [] fn = "mutualFundSymbolsList" -> mutualFundSymbols(token, version, SymbolFilter)
    [] fn = "otcSymbolsList" -> otcSymbols(token, version, SymbolFilter)
    [] fn = "optionsSymbolsList" -> optionsSymbols(token, version, SymbolFilter)
    [] fn = "cryptoSymbolsList" -> cryptoSymbols(token, version, SymbolFilter)
    [] fn = "internationalSymbolsList" -> internationalSymbols(a.a1, a.a2, token, version, SymbolFilter)

ListFns == {"symbolsList", "iexSymbolsList", "mutualFundSymbolsList", "otcSymbolsList", "optionsSymbolsList", "cryptoSymbolsList", "internationalSymbolsList"}

\* the token and the version a call was made with
CallerToken(c) == IF c.via = "method" THEN client._token ELSE c.args.token

CallerVersion(c) == IF c.via = "method" THEN client._version ELSE c.args.version

C5_FxSymbolsListPair ==
  \A i \in 1..Len(calls) :
    LET c == calls[i]
    IN  c.fn = "fxSymbolsList" /\ c.response.status = 200 /\ c.response.body.k = "fx" =>
          /\ c.outcome.state = "resolved"
          /\ c.outcome.value.k = "pair"
          /\ Len(c.outcome.value.ra) = Len(c.response.body.ra)
          /\ Len(c.outcome.value.rb) = Len(c.response.body.rb)
          /\ \A j \in 1..Len(c.response.body.ra) :
               c.outcome.value.ra[j] = c.response.body.ra[j].code
          /\ \A j \in 1..Len(c.response.body.rb) :
               c.outcome.value.rb[j]
                 = c.response.body.rb[j].fromCurrency \o c.response.body.rb[j].toCurrency

C5_Witness ==
  \E i \in 1..Len(calls) :
    /\ calls[i].fn = "fxSymbolsList"
    /\ calls[i].response.body
         = Json("fx", <<CurrencyRecord(USD)>>, <<PairRecord(USD, JPY)>>)
    /\ calls[i].outcome = Resolved(Json("pair", <<USD>>, <<<<"U", "S", "D", "J", "P", "Y">>>>))

\* C6: internationalSymbols with region "us", and with neither region nor
\* exchange, both request ref-data/region/us/symbols
C6_InternationalDefaultsToUs ==
  \A i \in 1..Len(calls) :
    LET c == calls[i]
    IN  /\ c.fn = "internationalSymbols"
        /\ \/ c.args.a1 = Str(<<"u", "s">>)
           \/ c.args.a1 = Undefined /\ c.args.a2 = Undefined
        => /\ c.promise.kind = "request"
           /\ c.promise.options.url = <<"r", "e", "f", "-", "d", "a", "t", "a", "/", "r", "e", "g", "i", "o", "n", "/", "u", "s", "/", "s", "y", "m", "b", "o", "l", "s">>

C6_Witness ==
  \E i \in 1..Len(calls) :
    /\ calls[i].fn = "internationalSymbols"
    /\ calls[i].args.a1 = Undefined
    /\ calls[i].args.a2 = Undefined
    /\ calls[i].promise.options.url = <<"r", "e", "f", "-", "d", "a", "t", "a", "/", "r", "e", "g", "i", "o", "n", "/", "u", "s", "/", "s", "y", "m", "b", "o", "l", "s">>

\* C7: when the transport answers with a status outside 2xx, the call rejects
\* with a RequestError that carries that status, whatever the endpoint or
\* list conversion, and resolves to nothing
C7_RequestErrorSurfaces ==
  \A i \in 1..Len(calls) :
    LET c == calls[i]
    IN  c.response # NoResponse /\ ~IsSuccess(c.response.status) =>
          c.outcome = Rejected("RequestError", c.response.status)

C7_Witness ==
  \E i \in 1..Len(calls) :
    /\ calls[i].fn = "symbolsList"
    /\ calls[i].response.status = 500
    /\ calls[i].outcome = Rejected("RequestError", 500)

\* the endpoint functions: every function but the list conversions
EndpointFns ==
  SingleSymbolFns
    \cup {"tops", "last", "hist", "symbols", "iexSymbols", "mutualFundSymbols",
          "otcSymbols", "internationalSymbols", "fxSymbols", "optionsSymbols",
          "cryptoSymbols", "isinLookup"}

\* C8: every endpoint hands the core, as its token, version and filter
\* parameters, the token, version and filter its caller passed
C8_CoreReceivesCallerArguments ==
  \A i \in 1..Len(calls) :
    LET c == calls[i]
    IN  c.fn \in EndpointFns /\ c.promise.kind = "request" =>
          /\ c.promise.token = CallerToken(c)
          /\ c.promise.version = CallerVersion(c)
          /\ c.promise.filter = c.args.filter

RECURSIVE Csv(_)
\* the elements of l in order, a comma between neighbours
Csv(l) ==
  IF Len(l) = 0 THEN <<>>
  ELSE IF Len(l) = 1 THEN l[1]
  ELSE Csv(SubSeq(l, 1, Len(l) - 1)) \o <<",">> \o l[Len(l)]

\* the symbols argument of tops and last as the list it stands for
AsList(x) == IF IsStr(x) THEN <<x.v>> ELSE x.v

\* C9: tops and last, given a non-empty string or a non-empty list of
\* symbols, hand the core <name>?symbols=<the symbols in the caller's order,
\* comma-separated>%2b; a string and the one-element list of it give one path
C9_MultiSymbolPath ==
  \A i \in 1..Len(calls) :
    LET c == calls[i]
    IN  /\ c.fn \in {"tops", "last"}
        /\ \/ NonEmptyStr(c.args.a1)
           \/ c.args.a1.t = "array" /\ Len(c.args.a1.v) > 0
        => /\ c.promise.kind = "request"
           /\ c.promise.options.url
                = (IF c.fn = "tops" THEN <<"t", "o", "p", "s">> ELSE <<"l", "a", "s", "t">>)
                    \o <<"?", "s", "y", "m", "b", "o", "l", "s", "=">> \o Csv(AsList(c.args.a1)) \o <<"%", "2", "b">>

C9_Witness ==
  \E i \in 1..Len(calls) :
    /\ calls[i].fn = "tops"
    /\ calls[i].args.a1 = Arr(<<AAPL, MSFT>>)
    /\ calls[i].promise.options.url = <<"t", "o", "p", "s", "?", "s", "y", "m", "b", "o", "l", "s", "=", "A", "A", "P", "L", ",", "M", "S", "F", "T", "%", "2", "b">>

RECURSIVE Count(_, _)
\* how often the character ch occurs in the string str
Count(str, ch) ==
  IF Len(str) = 0 THEN 0
  ELSE (IF Head(str) = ch THEN 1 ELSE 0) + Count(Tail(str), ch)

\* C10: every URL requested holds exactly one "?" separator
C10_OneQuerySeparator ==
  \A i \in 1..Len(network) : Count(network[i], "?") = 1

ValidationPasses(c) ==
  /\ c.fn \in SingleSymbolFns => c.args.a1.t # "array"
  /\ c.fn = "hist" /\ Truthy(c.args.a1) =>
       \/ c.args.a1.t = "date"
       \/ IsStr(c.args.a1) /\ IsYYYYMMDD(c.args.a1.v)

\* one core call, hence one GET, when validation passes and none when it
\* fails; an endpoint's result is the core's result as it is
OneRequestPerCall ==
  \A i \in 1..Len(calls) :
    LET c == calls[i]
    IN  /\ ValidationPasses(c) =>
              /\ c.promise.kind = "request"
              /\ network = <<RequestUrl(c.promise)>>
        /\ ~ValidationPasses(c) =>
              /\ c.promise.kind = "throw"
              /\ network = <<>>
        /\ c.fn \in EndpointFns /\ c.promise.kind = "request" =>
              /\ c.promise.then = "none"
              /\ Settled(c) => c.outcome = GetJsonOutcome(c.response)

\* while a call lasts, whatever the transport answers, no further GET is made
NoSecondRequest == (calls # <<>> /\ calls' # <<>>) => network' = network

\* C12: an endpoint invocation makes exactly one core call (one GET) when its
\* arguments pass validation and none when they fail, no request is ever made
\* again after a failure, and the endpoint's result is the core's unchanged
C12_OneRequestNoRetry == []OneRequestPerCall /\ [][NoSecondRequest]_vars

C12_Witness ==
  \E i \in 1..Len(calls) :
    /\ calls[i].fn = "deep"
    /\ calls[i].response.status = 500
    /\ calls[i].outcome = Rejected("RequestError", 500)
    /\ Len(network) = 1

RegionPath(region) == <<"r", "e", "f", "-", "d", "a", "t", "a", "/", "r", "e", "g", "i", "o", "n", "/">> \o region \o <<"/", "s", "y", "m", "b", "o", "l", "s">>

ExchangePath(exchange) == <<"r", "e", "f", "-", "d", "a", "t", "a", "/", "e", "x", "c", "h", "a", "n", "g", "e", "/">> \o exchange \o <<"/", "s", "y", "m", "b", "o", "l", "s">>

\* C14: in internationalSymbols a non-empty region decides the path,
\* ref-data/region/<region>/symbols, whether or not an exchange is given; the
\* path ref-data/exchange/<exchange>/symbols is requested only when the region
\* is empty or omitted and the exchange is non-empty; with neither the path is
\* the region path of "us"; each call requests exactly one of these paths
C14_RegionBeforeExchange ==
  \A i \in 1..Len(calls) :
    LET c == calls[i]
        region == c.args.a1
        exchange == c.args.a2
        url == c.promise.options.url
    IN  c.fn \in {"internationalSymbols", "internationalSymbolsList"} =>
          /\ c.promise.kind = "request"
          /\ network = <<RequestUrl(c.promise)>>
          /\ NonEmptyStr(region) => url = RegionPath(region.v)
          /\ url = ExchangePath(<<"t", "s", "e">>) =>
                region \in {Undefined, Empty} /\ NonEmptyStr(exchange)
          /\ region \in {Undefined, Empty} /\ NonEmptyStr(exchange) =>
                url = ExchangePath(exchange.v)
          /\ region \in {Undefined, Empty} /\ exchange \in {Undefined, Empty} =>
                url = RegionPath(<<"u", "s">>)

C14_Witness ==
  \E i \in 1..Len(calls) :
    /\ calls[i].fn = "internationalSymbols"
    /\ calls[i].args.a1 = Str(<<"c", "a">>)
    /\ calls[i].args.a2 = Str(<<"t", "s", "e">>)
    /\ calls[i].promise.options.url = RegionPath(<<"c", "a">>)
    /\ network = <<RequestUrl(calls[i].promise)>>

\* what a call made through the Client gives when it is the only call
Alone(c) ==
  CASE c.fn = "deep" -> Client_deep(client, c.args.a1, c.args.filter)
    [] c.fn = "symbolsList" -> Client_symbolsList(client)
    [] c.fn = "fxSymbolsList" -> Client_fxSymbolsList(client)

RECURSIVE RequestsOf(_)
\* the GETs of a sequence of calls, one for each call that reached the core
RequestsOf(cs) ==
  IF cs = <<>> THEN <<>>
  ELSE (IF Alone(Head(cs)).kind = "request" THEN <<RequestUrl(Alone(Head(cs)))>> ELSE <<>>)
         \o RequestsOf(Tail(cs))

\* every call in flight has the request and the result it has alone
IndependentCalls ==
  /\ client \in Clients
  /\ network = RequestsOf(calls)
  /\ \A i \in 1..Len(calls) :
       LET c == calls[i]
       IN  /\ c.promise = Alone(c)
           /\ c.outcome = IF Alone(c).kind = "throw" THEN Thrown(Alone(c).err)
                          ELSE IF c.response = NoResponse THEN Pending
                          ELSE Settle(Alone(c), c.response)

\* no step touches the Client, another call's request or a settled result
NoInterference ==
  /\ client' = client
  /\ calls' # <<>> =>
       /\ Len(calls') >= Len(calls)
       /\ \A i \in 1..Len(calls) :
            /\ calls'[i].promise = calls[i].promise
            /\ calls'[i].args = calls[i].args
            /\ Settled(calls[i]) => calls'[i] = calls[i]

\* C13: calls made through one Client while others are in flight do not
\* interact: whatever the order of the calls and of their responses, each
\* call's request and result are those it has when made alone, and no method
\* changes the Client's token or version
C13_ConcurrentCallsIndependent == []IndependentCalls /\ [][NoInterference]_vars

C13_Witness ==
  /\ Len(calls) = 2
  /\ calls[1].fn = "deep"
  /\ calls[1].args.a1 = Str(AAPL)
  /\ ~Settled(calls[1])
  /\ calls[2].fn = "fxSymbolsList"
  /\ calls[2].outcome.state = "resolved"
  /\ Len(network) = 2

====
